---- MODULE Spec2Model ----
(***************************************************************************)
(* A model of src/app.py: a command-line chat assistant that classifies a  *)
(* question by keywords, optionally fetches weather over HTTP or reads the *)
(* clock, and hands a composed prompt to a language model.                 *)
(*                                                                         *)
(* Text is modelled as a sequence of one-character strings, so that        *)
(* lower(), title(), split(), re.sub and the substring test `in` are       *)
(* computed character by character as Python computes them.  Characters    *)
(* outside ASCII are written as one named element, e.g. "<cross>".         *)
(***************************************************************************)
EXTENDS Integers, Sequences, FiniteSets, TLC

VARIABLES
    pc,               \* position of the program (main script) or of the text harness
    WEATHER_API_KEY,  \* app.py:13, os.getenv result: NoneValue or text
    trace,            \* observable events of the run, in order
    user_input,       \* app.py:184
    question,         \* argument of the latest function application
    intent,           \* detect_intent's result in the latest application
    city,             \* extract_city_from_question's result in the latest application
    recity,           \* extract_city_from_question applied to the text of city
    now,              \* datetime.now() at the latest ask_ai_with_tools invocation
    weather_data,     \* outcome of get_weather in the latest invocation, if called
    calls,            \* prints and external calls of the latest invocation, in order
    ret               \* outcome of the latest ask_ai_with_tools invocation

vars == <<pc, WEATHER_API_KEY, trace, user_input, question, intent, city, recity,
          now, weather_data, calls, ret>>

-----------------------------------------------------------------------------
(* Bounds of the model *)

\* words per generated question for detect_intent
MaxIntentWords == 2
\* words per generated question for extract_city_from_question
MaxCityWords == 3
\* input lines read by the interactive loop
MaxLines == 2

-----------------------------------------------------------------------------
(* Characters and Python's str methods *)

LowerLetters == <<"a","b","c","d","e","f","g","h","i","j","k","l","m","n","o","p","q","r","s","t","u","v","w","x","y","z">>
UpperLetters == <<"A","B","C","D","E","F","G","H","I","J","K","L","M","N","O","P","Q","R","S","T","U","V","W","X","Y","Z">>
LowerSet == {LowerLetters[i] : i \in 1..26}
UpperSet == {UpperLetters[i] : i \in 1..26}
DigitSet == {"0","1","2","3","4","5","6","7","8","9"}
SpaceSet == {" ", "\n", "\t"}

LowerOf == [c \in UpperSet |-> LowerLetters[CHOOSE i \in 1..26 : UpperLetters[i] = c]]
UpperOf == [c \in LowerSet |-> UpperLetters[CHOOSE i \in 1..26 : LowerLetters[i] = c]]

\* str.isupper() of one character
isupper(c) == c \in UpperSet
\* a cased character (str.title looks at these)
iscased(c) == c \in UpperSet \/ c \in LowerSet
\* regex class \w
isword(c) == c \in UpperSet \/ c \in LowerSet \/ c \in DigitSet \/ c = "_"
\* regex class \s
isspace(c) == c \in SpaceSet

char_lower(c) == IF c \in UpperSet THEN LowerOf[c] ELSE c
char_upper(c) == IF c \in LowerSet THEN UpperOf[c] ELSE c

\* str.lower()
str_lower(s) == [i \in 1..Len(s) |-> char_lower(s[i])]

\* str.title(): a cased character is upper-cased after an uncased one (or at
\* the start) and lower-cased after a cased one
str_title(s) ==
    [i \in 1..Len(s) |->
        IF ~iscased(s[i]) THEN s[i]
        ELSE IF i = 1 \/ ~iscased(s[i-1]) THEN char_upper(s[i])
        ELSE char_lower(s[i])]

RECURSIVE split_from(_, _, _, _)
split_from(s, i, cur, acc) ==
    IF i > Len(s) THEN (IF cur = <<>> THEN acc ELSE Append(acc, cur))
    ELSE IF isspace(s[i])
         THEN split_from(s, i + 1, <<>>, IF cur = <<>> THEN acc ELSE Append(acc, cur))
         ELSE split_from(s, i + 1, Append(cur, s[i]), acc)

\* str.split(): the maximal runs of non-whitespace
str_split(s) == split_from(s, 1, <<>>, <<>>)

RECURSIVE str_join(_)
\* ' '.join(parts)
str_join(parts) ==
    IF Len(parts) = 0 THEN <<>>
    ELSE IF Len(parts) = 1 THEN parts[1]
    ELSE parts[1] \o <<" ">> \o str_join(Tail(parts))

RECURSIVE lstrip(_)
lstrip(s) == IF Len(s) > 0 /\ isspace(s[1]) THEN lstrip(Tail(s)) ELSE s
RECURSIVE rstrip(_)
rstrip(s) == IF Len(s) > 0 /\ isspace(s[Len(s)]) THEN rstrip(SubSeq(s, 1, Len(s) - 1)) ELSE s
\* str.strip()
str_strip(s) == rstrip(lstrip(s))

\* Python's `pat in s` on strings
contains(s, pat) ==
    \E i \in 1..(Len(s) - Len(pat) + 1) : SubSeq(s, i, i + Len(pat) - 1) = pat

\* re.sub(r'[^\w\s]', '', s)
strip_punctuation(s) == SelectSeq(s, LAMBDA c : isword(c) \/ isspace(c))
\* re.sub(r'[^\w]', '', s)
strip_nonword(s) == SelectSeq(s, LAMBDA c : isword(c))

\* Python's None, and a str value, as the two shapes of an optional text
NoneValue == [some |-> FALSE, text |-> <<>>]
Str(s) == [some |-> TRUE, text |-> s]
\* Python truthiness of an optional text: None and '' are falsy
truthy(v) == v.some /\ Len(v.text) > 0
\* a local not assigned yet
Unset == "unset"

-----------------------------------------------------------------------------
(* detect_intent, app.py:66-75 *)

weather_keywords == <<<<"w", "e", "a", "t", "h", "e", "r">>, <<"t", "e", "m", "p", "e", "r", "a", "t", "u", "r", "e">>, <<"r", "a", "i", "n">>, <<"s", "u", "n", "n", "y">>, <<"c", "l", "o", "u", "d", "y">>>>
time_keywords == <<<<"t", "i", "m", "e">>, <<"d", "a", "t", "e">>, <<"t", "o", "d", "a", "y">>, <<"w", "h", "a", "t", "'", "s", " ", "t", "h", "e", " ", "t", "i", "m", "e">>>>

any_keyword(keywords, text) == \E k \in 1..Len(keywords) : contains(text, keywords[k])

\* a faulty variant of detect_intent: the time keywords are checked first
detect_intent_time_first(q) ==
    LET question_lower == str_lower(q) IN
    IF any_keyword(time_keywords, question_lower) THEN "time"
    ELSE IF any_keyword(weather_keywords, question_lower) THEN "weather"
    ELSE "general"

detect_intent(q) ==
    LET question_lower == str_lower(q) IN
    IF any_keyword(weather_keywords, question_lower) THEN "weather"
    ELSE IF any_keyword(time_keywords, question_lower) THEN "time"
    ELSE "general"

-----------------------------------------------------------------------------
(* extract_city_from_question, app.py:77-109 *)

trigger_words == <<<<"i", "n">>, <<"f", "o", "r">>, <<"a", "t">>>>

\* clean_question.split(), app.py:82-83
clean_words(q) == str_split(strip_punctuation(str_lower(q)))

\* `x in words` and words.index(x) (1-based here; 0 when absent)
in_list(x, list) == \E i \in 1..Len(list) : list[i] = x
index_of(x, list) ==
    IF in_list(x, list)
    THEN CHOOSE i \in 1..Len(list) : list[i] = x /\ \A j \in 1..(i - 1) : list[j] # x
    ELSE 0

\* a faulty variant of the loop: the trigger that comes first in the sentence decides
trigger_scan_sentence_order(words, k) ==
    LET hits == {i \in 1..(Len(words) - 1) : in_list(words[i], trigger_words)} IN
    IF hits = {} THEN NoneValue
    ELSE LET first == CHOOSE i \in hits : \A j \in hits : i <= j
         IN Str(str_title(str_join(SubSeq(words, first + 1, Len(words)))))

RECURSIVE trigger_scan(_, _)
\* the loop of app.py:88-97 from the k-th trigger on: the result it returns,
\* or NoneValue when it falls through
trigger_scan(words, k) ==
    IF k > Len(trigger_words) THEN NoneValue
    ELSE LET trigger == trigger_words[k]
             city_index == index_of(trigger, words)   \* 0-based index + 1
         IN IF in_list(trigger, words) /\ city_index < Len(words)
            THEN Str(str_title(str_join(SubSeq(words, city_index + 1, Len(words)))))
            ELSE trigger_scan(words, k + 1)

\* a faulty variant of the test: more than five characters are asked for
looks_like_city_long(clean_word) ==
    Len(clean_word) > 0 /\ isupper(clean_word[1]) /\ Len(clean_word) > 5

\* the test of app.py:105
looks_like_city(clean_word) ==
    Len(clean_word) > 0 /\ isupper(clean_word[1]) /\ Len(clean_word) > 2

\* the loop of app.py:101-107 over the words of the original question
capitalized_scan(q) ==
    LET original_words == str_split(q)
        cleaned == [i \in 1..Len(original_words) |-> strip_nonword(original_words[i])]
        hits == {i \in 1..Len(cleaned) : looks_like_city(cleaned[i])}
    IN IF hits = {} THEN NoneValue
       ELSE Str(cleaned[CHOOSE i \in hits : \A j \in hits : i <= j])

extract_city_from_question(q) ==
    LET by_trigger == trigger_scan(clean_words(q), 1) IN
    IF by_trigger.some THEN by_trigger ELSE capitalized_scan(q)

-----------------------------------------------------------------------------
(* Values of the provider's JSON body (response.json()), tagged by type *)

JStr(s) == [t |-> "str", v |-> s]
JNum(n) == [t |-> "num", v |-> n]
JNull == [t |-> "null", v |-> 0]
JList(l) == [t |-> "list", v |-> l]
JDict(d) == [t |-> "dict", v |-> d]

\* one subscript of the expressions of app.py:39-45: a key or a list index
Key(k) == [t |-> "key", k |-> k, i |-> 0]
Idx(i) == [t |-> "idx", k |-> "", i |-> i]

Found(v) == [ok |-> TRUE, val |-> v, exc |-> "none", msg |-> <<>>]
Thrown(e, m) == [ok |-> FALSE, val |-> JNull, exc |-> e, msg |-> m]

\* repr() of a key, the text of a KeyError
KeyRepr == [k \in {"name", "sys", "country", "main", "temp", "feels_like", "humidity",
                   "weather", "description", "wind", "speed"} |->
    CASE k = "name" -> <<"'", "n", "a", "m", "e", "'">>
      [] k = "sys" -> <<"'", "s", "y", "s", "'">>
      [] k = "country" -> <<"'", "c", "o", "u", "n", "t", "r", "y", "'">>
      [] k = "main" -> <<"'", "m", "a", "i", "n", "'">>
      [] k = "temp" -> <<"'", "t", "e", "m", "p", "'">>
      [] k = "feels_like" -> <<"'", "f", "e", "e", "l", "s", "_", "l", "i", "k", "e", "'">>
      [] k = "humidity" -> <<"'", "h", "u", "m", "i", "d", "i", "t", "y", "'">>
      [] k = "weather" -> <<"'", "w", "e", "a", "t", "h", "e", "r", "'">>
      [] k = "description" -> <<"'", "d", "e", "s", "c", "r", "i", "p", "t", "i", "o", "n", "'">>
      [] k = "wind" -> <<"'", "w", "i", "n", "d", "'">>
      [] k = "speed" -> <<"'", "s", "p", "e", "e", "d", "'">>]

\* Python's v[step]: KeyError on a missing dict key, IndexError past the end
\* of a list, TypeError on a value that takes no such subscript
subscript(v, step) ==
    IF step.t = "key"
    THEN IF v.t = "dict"
         THEN IF step.k \in DOMAIN v.v THEN Found(v.v[step.k])
              ELSE Thrown("KeyError", KeyRepr[step.k])
         ELSE Thrown("TypeError", <<>>)
    ELSE IF v.t = "list"
         THEN IF step.i + 1 <= Len(v.v) THEN Found(v.v[step.i + 1])
              ELSE Thrown("IndexError", <<"l", "i", "s", "t", " ", "i", "n", "d", "e", "x", " ", "o", "u", "t", " ", "o", "f", " ", "r", "a", "n", "g", "e">>)
         ELSE IF v.t = "dict"
         THEN Thrown("KeyError", <<"0">>)
         ELSE IF v.t = "str"
         THEN IF step.i + 1 <= Len(v.v) THEN Found(JStr(<<v.v[step.i + 1]>>))
              ELSE Thrown("IndexError", <<"s", "t", "r", "i", "n", "g", " ", "i", "n", "d", "e", "x", " ", "o", "u", "t", " ", "o", "f", " ", "r", "a", "n", "g", "e">>)
         ELSE Thrown("TypeError", <<>>)

RECURSIVE lookup(_, _)
\* a chain of subscripts, left to right
lookup(v, path) ==
    IF Len(path) = 0 THEN Found(v)
    ELSE LET r == subscript(v, path[1])
         IN IF r.ok THEN lookup(r.val, Tail(path)) ELSE r

\* the .title() of app.py:44: only a str has it
title_of(r) ==
    IF ~r.ok THEN r
    ELSE IF r.val.t = "str" THEN Found(JStr(str_title(r.val.v)))
    ELSE Thrown("AttributeError", <<>>)

\* the dict display of app.py:38-46, its items in evaluation order
weather_info_items(data) ==
    << lookup(data, <<Key("name")>>),
       lookup(data, <<Key("sys"), Key("country")>>),
       lookup(data, <<Key("main"), Key("temp")>>),
       lookup(data, <<Key("main"), Key("feels_like")>>),
       lookup(data, <<Key("main"), Key("humidity")>>),
       title_of(lookup(data, <<Key("weather"), Idx(0), Key("description")>>)),
       lookup(data, <<Key("wind"), Key("speed")>>) >>

DigitChars == <<"0", "1", "2", "3", "4", "5", "6", "7", "8", "9">>
RECURSIVE digits(_)
\* the decimal digits of a natural number
digits(n) == IF n < 10 THEN <<DigitChars[n + 1]>> ELSE Append(digits(n \div 10), DigitChars[(n % 10) + 1])

\* str() of a leaf value, as an f-string renders it (leaves of the modelled
\* bodies are strings, integers and null)
py_str(v) ==
    CASE v.t = "str" -> v.v
      [] v.t = "num" -> IF v.v < 0 THEN <<"-">> \o digits(0 - v.v) ELSE digits(v.v)
      [] v.t = "null" -> <<"N", "o", "n", "e">>

-----------------------------------------------------------------------------
(* get_weather, app.py:19-60 *)

\* what get_weather hands back: a dict (weather_info), a str (an error
\* message) or an exception that leaves it
Dict(items) == [kind |-> "dict", items |-> items, text |-> <<>>, exc |-> "none"]
ErrorText(s) == [kind |-> "str", items |-> <<>>, text |-> s, exc |-> "none"]
Raised(e) == [kind |-> "raise", items |-> <<>>, text |-> <<>>, exc |-> e]

\* the outcomes of requests.get / raise_for_status / response.json: a network
\* failure, or a response with a status and a body; json_error tells what a
\* body that is no JSON makes response.json() raise: requests' own
\* JSONDecodeError, a RequestException (requests >= 2.27), or a plain
\* ValueError (older releases)
Response(status, is_json, data, json_error, errtext) ==
    [network |-> TRUE, status |-> status, is_json |-> is_json, data |-> data,
     json_error |-> json_error, errtext |-> errtext]
NetworkFailure(errtext) ==
    [network |-> FALSE, status |-> 0, is_json |-> FALSE, data |-> JNull,
     json_error |-> "none", errtext |-> errtext]

CompleteBody ==
    JDict([name |-> JStr(<<"L", "o", "n", "d", "o", "n">>),
           sys |-> JDict([country |-> JStr(<<"G", "B">>)]),
           main |-> JDict([temp |-> JNum(12), feels_like |-> JNum(-1), humidity |-> JNum(81)]),
           weather |-> JList(<<JDict([description |-> JStr(<<"l", "i", "g", "h", "t", " ", "r", "a", "i", "n">>)])>>),
           wind |-> JDict([speed |-> JNum(4)])])
BodyWithoutWind ==
    JDict([name |-> JStr(<<"L", "o", "n", "d", "o", "n">>),
           sys |-> JDict([country |-> JStr(<<"G", "B">>)]),
           main |-> JDict([temp |-> JNum(12), feels_like |-> JNum(-1), humidity |-> JNum(81)]),
           weather |-> JList(<<JDict([description |-> JStr(<<"l", "i", "g", "h", "t", " ", "r", "a", "i", "n">>)])>>)])
BodyWithEmptyWeather ==
    JDict([name |-> JStr(<<"L", "o", "n", "d", "o", "n">>),
           sys |-> JDict([country |-> JStr(<<"G", "B">>)]),
           main |-> JDict([temp |-> JNum(12), feels_like |-> JNum(-1), humidity |-> JNum(81)]),
           weather |-> JList(<<>>),
           wind |-> JDict([speed |-> JNum(4)])])
BodyWithNullDescription ==
    JDict([name |-> JStr(<<"L", "o", "n", "d", "o", "n">>),
           sys |-> JDict([country |-> JStr(<<"G", "B">>)]),
           main |-> JDict([temp |-> JNum(12), feels_like |-> JNum(-1), humidity |-> JNum(81)]),
           weather |-> JList(<<JDict([description |-> JNull])>>),
           wind |-> JDict([speed |-> JNum(4)])])

HttpOutcomes ==
    << Response(200, TRUE, CompleteBody, "none", <<>>),
       Response(200, TRUE, BodyWithoutWind, "none", <<>>),
       Response(200, TRUE, BodyWithEmptyWeather, "none", <<>>),
       Response(200, TRUE, BodyWithNullDescription, "none", <<>>),
       Response(200, FALSE, JNull, "RequestException", <<"E", "x", "p", "e", "c", "t", "i", "n", "g", " ", "v", "a", "l", "u", "e", ":", " ", "l", "i", "n", "e", " ", "1", " ", "c", "o", "l", "u", "m", "n", " ", "1", " ", "(", "c", "h", "a", "r", " ", "0", ")">>),
       Response(200, FALSE, JNull, "ValueError", <<"E", "x", "p", "e", "c", "t", "i", "n", "g", " ", "v", "a", "l", "u", "e", ":", " ", "l", "i", "n", "e", " ", "1", " ", "c", "o", "l", "u", "m", "n", " ", "1", " ", "(", "c", "h", "a", "r", " ", "0", ")">>),
       Response(401, TRUE, JNull, "none", <<"4", "0", "1", " ", "C", "l", "i", "e", "n", "t", " ", "E", "r", "r", "o", "r", ":", " ", "U", "n", "a", "u", "t", "h", "o", "r", "i", "z", "e", "d">>),
       Response(404, TRUE, JNull, "none", <<"4", "0", "4", " ", "C", "l", "i", "e", "n", "t", " ", "E", "r", "r", "o", "r", ":", " ", "N", "o", "t", " ", "F", "o", "u", "n", "d">>),
       Response(500, FALSE, JNull, "none", <<"5", "0", "0", " ", "S", "e", "r", "v", "e", "r", " ", "E", "r", "r", "o", "r", ":", " ", "I", "n", "t", "e", "r", "n", "a", "l", " ", "S", "e", "r", "v", "e", "r", " ", "E", "r", "r", "o", "r">>),
       NetworkFailure(<<"C", "o", "n", "n", "e", "c", "t", "i", "o", "n", " ", "r", "e", "f", "u", "s", "e", "d">>) >>

\* response.raise_for_status(): HTTPError for 400..599
raises_http_error(status) == 400 <= status /\ status <= 599

\* the handlers of app.py:50-60
on_http_error(city_name, http) ==
    IF http.status = 401
    THEN ErrorText(<<"<cross>", " ", "W", "e", "a", "t", "h", "e", "r", " ", "A", "P", "I", " ", "k", "e", "y", " ", "i", "s", " ", "i", "n", "v", "a", "l", "i", "d", " ", "o", "r", " ", "n", "o", "t", " ", "a", "c", "t", "i", "v", "a", "t", "e", "d", " ", "y", "e", "t", ".", " ", "P", "l", "e", "a", "s", "e", " ", "c", "h", "e", "c", "k", " ", "y", "o", "u", "r", " ", "A", "P", "I", " ", "k", "e", "y", ".">>)
    ELSE IF http.status = 404
    THEN ErrorText(<<"<cross>", " ", "C", "i", "t", "y", " ", "'">> \o city_name \o <<"'", " ", "n", "o", "t", " ", "f", "o", "u", "n", "d", ".", " ", "P", "l", "e", "a", "s", "e", " ", "c", "h", "e", "c", "k", " ", "t", "h", "e", " ", "s", "p", "e", "l", "l", "i", "n", "g", ".">>)
    ELSE ErrorText(<<"<cross>", " ", "W", "e", "a", "t", "h", "e", "r", " ", "A", "P", "I", " ", "e", "r", "r", "o", "r", ":", " ">> \o http.errtext)
on_request_exception(errtext) == ErrorText(<<"<cross>", " ", "N", "e", "t", "w", "o", "r", "k", " ", "e", "r", "r", "o", "r", " ", "f", "e", "t", "c", "h", "i", "n", "g", " ", "w", "e", "a", "t", "h", "e", "r", " ", "d", "a", "t", "a", ":", " ">> \o errtext)
on_key_error(msg) == ErrorText(<<"<cross>", " ", "E", "r", "r", "o", "r", " ", "p", "a", "r", "s", "i", "n", "g", " ", "w", "e", "a", "t", "h", "e", "r", " ", "d", "a", "t", "a", ":", " ">> \o msg)

\* the first item of the dict display that throws, 0 when none does
first_thrown(items) ==
    IF \A i \in 1..Len(items) : items[i].ok THEN 0
    ELSE CHOOSE i \in 1..Len(items) : ~items[i].ok /\ \A j \in 1..(i - 1) : items[j].ok

get_weather(city_name, http) ==
    IF ~http.network THEN on_request_exception(http.errtext)
    ELSE IF raises_http_error(http.status) THEN on_http_error(city_name, http)
    ELSE IF ~http.is_json
         THEN IF http.json_error = "RequestException"
              THEN on_request_exception(http.errtext)
              ELSE Raised(http.json_error)
    ELSE LET items == weather_info_items(http.data)
             bad == first_thrown(items)
         IN IF bad = 0 THEN Dict([i \in 1..Len(items) |-> items[i].val])
            ELSE IF items[bad].exc = "KeyError" THEN on_key_error(items[bad].msg)
            ELSE Raised(items[bad].exc)

\* the print of app.py:31 and the GET of app.py:33, in order
Call(kind, arg, ok, reply) == [kind |-> kind, arg |-> arg, ok |-> ok, reply |-> reply]
get_weather_calls(city_name, http) ==
    LET city_formatted == str_strip(city_name)
    IN << Call("print", <<"F", "e", "t", "c", "h", "i", "n", "g", " ", "w", "e", "a", "t", "h", "e", "r", " ", "f", "o", "r", ":", " ">> \o city_formatted, TRUE, <<>>),
          Call("http", city_formatted, http.network /\ ~raises_http_error(http.status), <<>>) >>

-----------------------------------------------------------------------------
(* get_current_time, app.py:62-64 *)

\* datetime.now(): a few instants of the local clock
Instant(y, mo, d, h, mi, sec) ==
    [year |-> y, month |-> mo, day |-> d, hour |-> h, minute |-> mi, second |-> sec]
Epoch == Instant(1970, 1, 1, 0, 0, 0)
Clocks == << Instant(2026, 11, 1, 8, 1, 59), Instant(2024, 2, 29, 23, 59, 9),
            Instant(1999, 12, 31, 0, 0, 0) >>

\* a number in at least `width` digits, zero-padded (%Y, %m, %d, %H, %M, %S)
RECURSIVE zero_pad(_, _)
zero_pad(s, width) == IF Len(s) >= width THEN s ELSE zero_pad(<<"0">> \o s, width)

\* a faulty variant of the format, without padding: "%Y-%-m-%-d %-H:%-M:%-S"
strftime_unpadded(t) ==
    digits(t.year) \o <<"-">> \o digits(t.month) \o <<"-">> \o digits(t.day)
    \o <<" ">> \o digits(t.hour) \o <<":">> \o digits(t.minute)
    \o <<":">> \o digits(t.second)

\* strftime("%Y-%m-%d %H:%M:%S")
strftime(t) ==
    zero_pad(digits(t.year), 4) \o <<"-">> \o zero_pad(digits(t.month), 2)
    \o <<"-">> \o zero_pad(digits(t.day), 2) \o <<" ">>
    \o zero_pad(digits(t.hour), 2) \o <<":">> \o zero_pad(digits(t.minute), 2)
    \o <<":">> \o zero_pad(digits(t.second), 2)

get_current_time(t) == strftime(t)

-----------------------------------------------------------------------------
(* ask_ai_with_tools, app.py:111-148 *)

\* model.generate_content(prompt) followed by response.text: the reply, or a
\* failure of the call
LlmOutcomes ==
    << [ok |-> TRUE, text |-> <<"I", "t", " ", "i", "s", " ", "m", "i", "l", "d", " ", "a", "n", "d", " ", "r", "a", "i", "n", "y", " ", "i", "n", " ", "L", "o", "n", "d", "o", "n", ".">>],
       [ok |-> TRUE, text |-> <<>>],
       [ok |-> FALSE, text |-> <<>>] >>

Return(s) == [kind |-> "return", text |-> s, exc |-> "none"]
Raise(e) == [kind |-> "raise", text |-> <<>>, exc |-> e]
NoRet == [kind |-> "none", text |-> <<>>, exc |-> "none"]
Summary(w) == [kind |-> w.kind, text |-> w.text, exc |-> w.exc]

\* what one invocation did: its locals, its prints and calls, its outcome
Outcome(i, c, w, cs, r) == [intent |-> i, city |-> c, weather_data |-> w, calls |-> cs, ret |-> r]
\* the same, from the calls made so far and the calls and outcome of the rest
from_parts(i, c, w, cs, rest) == Outcome(i, c, w, cs \o rest.calls, rest.ret)

\* a faulty variant of the call: the failure is caught and answered with a message
generate_caught(prompt, llm) ==
    [calls |-> <<Call("llm", prompt, llm.ok, llm.text)>>,
     ret |-> IF llm.ok THEN Return(llm.text) ELSE Return(<<"S", "o", "r", "r", "y", ",", " ", "t", "h", "e", " ", "m", "o", "d", "e", "l", " ", "i", "s", " ", "u", "n", "a", "v", "a", "i", "l", "a", "b", "l", "e", ".">>)]

\* response = model.generate_content(prompt); return response.text
generate(prompt, llm) ==
    [calls |-> <<Call("llm", prompt, llm.ok, llm.text)>>,
     ret |-> IF llm.ok THEN Return(llm.text) ELSE Raise("ModelError")]

\* the f-string of app.py:124-132
weather_context(items, q) ==
    <<"\n", " ", " ", " ", " ", " ", " ", " ", " ", " ", " ", " ", " ", "C", "u", "r", "r", "e", "n", "t", " ", "w", "e", "a", "t", "h", "e", "r", " ", "d", "a", "t", "a", " ", "f", "o", "r", " ">> \o py_str(items[1]) \o <<",", " ">> \o py_str(items[2])
    \o <<":", "\n", " ", " ", " ", " ", " ", " ", " ", " ", " ", " ", " ", " ", "-", " ", "T", "e", "m", "p", "e", "r", "a", "t", "u", "r", "e", ":", " ">> \o py_str(items[3]) \o <<"<deg>", "C", " ", "(", "f", "e", "e", "l", "s", " ", "l", "i", "k", "e", " ">>
    \o py_str(items[4]) \o <<"<deg>", "C", ")", "\n", " ", " ", " ", " ", " ", " ", " ", " ", " ", " ", " ", " ", "-", " ", "C", "o", "n", "d", "i", "t", "i", "o", "n", ":", " ">> \o py_str(items[6])
    \o <<"\n", " ", " ", " ", " ", " ", " ", " ", " ", " ", " ", " ", " ", "-", " ", "H", "u", "m", "i", "d", "i", "t", "y", ":", " ">> \o py_str(items[5])
    \o <<"%", "\n", " ", " ", " ", " ", " ", " ", " ", " ", " ", " ", " ", " ", "-", " ", "W", "i", "n", "d", " ", "s", "p", "e", "e", "d", ":", " ">> \o py_str(items[7])
    \o <<" ", "m", "/", "s", "\n", " ", " ", " ", " ", " ", " ", " ", " ", " ", " ", " ", " ", "\n", " ", " ", " ", " ", " ", " ", " ", " ", " ", " ", " ", " ", "P", "r", "e", "s", "e", "n", "t", " ", "t", "h", "i", "s", " ", "w", "e", "a", "t", "h", "e", "r", " ", "i", "n", "f", "o", "r", "m", "a", "t", "i", "o", "n", " ", "i", "n", " ", "a", " ", "c", "o", "n", "v", "e", "r", "s", "a", "t", "i", "o", "n", "a", "l", " ", "w", "a", "y", " ", "t", "o", " ", "a", "n", "s", "w", "e", "r", " ", "t", "h", "e", " ", "u", "s", "e", "r", "'", "s", " ", "q", "u", "e", "s", "t", "i", "o", "n", ":", " ", "\"">>
    \o q \o <<"\"", "\n", " ", " ", " ", " ", " ", " ", " ", " ", " ", " ", " ", " ">>

\* the f-string of app.py:141
time_context(current_time, q) ==
    <<"C", "u", "r", "r", "e", "n", "t", " ", "d", "a", "t", "e", " ", "a", "n", "d", " ", "t", "i", "m", "e", ":", " ">> \o current_time \o <<".", " ", "A", "n", "s", "w", "e", "r", " ", "t", "h", "e", " ", "u", "s", "e", "r", "'", "s", " ", "q", "u", "e", "s", "t", "i", "o", "n", ":", " ", "'">>
    \o q \o <<"'">>

ClarifyCity == <<"I", " ", "c", "a", "n", " ", "h", "e", "l", "p", " ", "y", "o", "u", " ", "w", "i", "t", "h", " ", "w", "e", "a", "t", "h", "e", "r", "!", " ", "P", "l", "e", "a", "s", "e", " ", "s", "p", "e", "c", "i", "f", "y", " ", "a", " ", "c", "i", "t", "y", ".", " ", "F", "o", "r", " ", "e", "x", "a", "m", "p", "l", "e", ":", " ", "'", "W", "h", "a", "t", "'", "s", " ", "t", "h", "e", " ", "w", "e", "a", "t", "h", "e", "r", " ", "i", "n", " ", "L", "o", "n", "d", "o", "n", "?", "'">>

\* a faulty variant of the test: the city is never found missing
city_missing_never(c) == FALSE

\* `not city`, app.py:117
city_missing(c) == ~truthy(c)

\* a faulty variant of the branch: the error message is handed to the model as well
after_get_weather_always_model(q, w, llm) ==
    IF w.kind = "raise" THEN [calls |-> <<>>, ret |-> Raise(w.exc)]
    ELSE IF w.kind = "dict" THEN generate(weather_context(w.items, q), llm)
    ELSE generate(w.text \o q, llm)

\* app.py:122-137, with weather_data in hand
after_get_weather(q, w, llm) ==
    IF w.kind = "raise" THEN [calls |-> <<>>, ret |-> Raise(w.exc)]
    ELSE IF w.kind = "dict" THEN generate(weather_context(w.items, q), llm)
    ELSE [calls |-> <<>>, ret |-> Return(w.text)]

\* app.py:120-137, with the city in hand
fetch_and_answer(q, i, c, w, http, llm) ==
    from_parts(i, c, Summary(w), get_weather_calls(c.text, http), after_get_weather(q, w, llm))

\* the weather branch, app.py:116-137, with the extracted city in hand
weather_branch(q, i, c, http, llm) ==
    IF city_missing(c) THEN Outcome(i, c, NoRet, <<>>, Return(ClarifyCity))
    ELSE fetch_and_answer(q, i, c, get_weather(c.text, http), http, llm)

\* the branches of app.py:115-148, with the intent in hand
dispatch(q, i, http, llm, t) ==
    IF i = "weather" THEN weather_branch(q, i, extract_city_from_question(q), http, llm)
    ELSE IF i = "time"
    THEN from_parts(i, NoneValue, NoRet, <<>>, generate(time_context(get_current_time(t), q), llm))
    ELSE from_parts(i, NoneValue, NoRet, <<>>, generate(q, llm))

ask_ai_with_tools(q, http, llm, t) == dispatch(q, detect_intent(q), http, llm, t)

-----------------------------------------------------------------------------
(* The script, app.py:151-191 *)

\* os.getenv('OPENWEATHER_API_KEY'): unset, set to nothing, or set
KeyValues == {NoneValue, Str(<<>>), Str(<<"0", "1", "2", "3", "4", "5", "6", "7", "8", "9", "a", "b", "c", "d", "e", "f">>)}

\* the lines input() may return
Lines == { <<"q", "u", "i", "t">>, <<"Q", "U", "I", "T">>, <<"E", "x", "i", "t">>, <<"b", "y", "e">>, <<"q", "u", "i", "t", " ">>, <<"b", "y", "e", " ", "b", "y", "e">>,
           <<"w", "h", "a", "t", "'", "s", " ", "t", "h", "e", " ", "w", "e", "a", "t", "h", "e", "r">>, <<"W", "e", "a", "t", "h", "e", "r", " ", "i", "n", " ", "P", "a", "r", "i", "s">>, <<"i", "s", " ", "i", "t", " ", "s", "u", "n", "n", "y", " ", "a", "t", " ", "L", "A", "?">>,
           <<"w", "h", "a", "t", " ", "t", "i", "m", "e", " ", "w", "i", "l", "l", " ", "i", "t", " ", "r", "a", "i", "n">>, <<"W", "h", "a", "t", " ", "t", "i", "m", "e", " ", "i", "s", " ", "i", "t">>, <<"h", "e", "l", "l", "o", " ", "t", "h", "e", "r", "e">> }

WeatherSmokeQuestion == <<"W", "e", "a", "t", "h", "e", "r", " ", "i", "n", " ", "L", "o", "n", "d", "o", "n">>
TimeSmokeQuestion == <<"W", "h", "a", "t", " ", "t", "i", "m", "e", " ", "i", "s", " ", "i", "t">>
quit_words == {<<"q", "u", "i", "t">>, <<"e", "x", "i", "t">>, <<"b", "y", "e">>}

\* a faulty variant of the test: the weather test runs whatever the key
key_missing_never(key) == FALSE

\* `not WEATHER_API_KEY`, app.py:162
key_missing(key) == ~truthy(key)

\* a faulty variant of the test: the line is compared as typed
is_quit_case_sensitive(line) == line \in quit_words

\* user_input.lower() in ['quit', 'exit', 'bye'], app.py:185
is_quit(line) == str_lower(line) \in quit_words

\* the events one invocation adds to the trace: the call, its prints and
\* external calls, and the "AI:" print of the caller when it returned
RECURSIVE kinds(_)
kinds(cs) == IF Len(cs) = 0 THEN <<>> ELSE <<cs[1].kind>> \o kinds(Tail(cs))
invocation_events(o) ==
    <<"ask">> \o kinds(o.calls) \o (IF o.ret.kind = "return" THEN <<"ai">> ELSE <<>>)

count(ev, tr) == Cardinality({i \in 1..Len(tr) : tr[i] = ev})

Init ==
    /\ pc = "start"
    /\ WEATHER_API_KEY \in KeyValues
    /\ trace = <<>>
    /\ user_input = <<>>
    /\ question = <<>>
    /\ intent = Unset
    /\ city = NoneValue
    /\ recity = NoneValue
    /\ now = Epoch
    /\ weather_data = NoRet
    /\ calls = <<>>
    /\ ret = NoRet

\* app.py:152-159
Banner ==
    /\ pc = "start"
    /\ trace' = Append(trace, "banner")
    /\ pc' = "key_check"
    /\ UNCHANGED <<WEATHER_API_KEY, user_input, question, intent, city, recity, now, weather_data, calls, ret>>

\* app.py:162-164
KeyWarning ==
    /\ pc = "key_check"
    /\ key_missing(WEATHER_API_KEY)
    /\ trace' = Append(trace, "key_warning")
    /\ pc' = "test_time"
    /\ UNCHANGED <<WEATHER_API_KEY, user_input, question, intent, city, recity, now, weather_data, calls, ret>>

\* app.py:165-166
KeyLoaded ==
    /\ pc = "key_check"
    /\ ~key_missing(WEATHER_API_KEY)
    /\ trace' = Append(trace, "key_loaded")
    /\ pc' = "test_weather"
    /\ UNCHANGED <<WEATHER_API_KEY, user_input, question, intent, city, recity, now, weather_data, calls, ret>>

\* The environment of one invocation: the outcome of the GET, of the model
\* call and the clock reading.  An outcome the invocation never consumes is
\* fixed to the first of its list, which leaves the behaviours unchanged.
consumes_http(i, c) == i = "weather" /\ truthy(c)
consumes_model(i, c, w) == ~(i = "weather" /\ (~truthy(c) \/ w.kind # "dict"))
http_choices(q) ==
    IF consumes_http(detect_intent(q), extract_city_from_question(q))
    THEN 1..Len(HttpOutcomes) ELSE {1}
model_choices_for(i, c, h) ==
    IF consumes_model(i, c, get_weather(c.text, HttpOutcomes[h]))
    THEN 1..Len(LlmOutcomes) ELSE {1}
model_choices(q, h) == model_choices_for(detect_intent(q), extract_city_from_question(q), h)
clock_choices(q) == IF detect_intent(q) = "time" THEN 1..Len(Clocks) ELSE {1}

\* the script's state after an invocation with outcome o
Observe(o, q, t, next_pc, before) ==
    /\ question' = q
    /\ intent' = o.intent
    /\ city' = o.city
    /\ now' = t
    /\ weather_data' = o.weather_data
    /\ calls' = o.calls
    /\ ret' = o.ret
    /\ trace' = trace \o before \o invocation_events(o)
    /\ pc' = IF o.ret.kind = "return" THEN next_pc ELSE "crashed"

\* one call of ask_ai_with_tools from the script and the print of its answer;
\* an exception leaving it ends the program
Invoke(q, next_pc, before) ==
    \E h \in http_choices(q) : \E l \in model_choices(q, h) : \E t \in clock_choices(q) :
        Observe(ask_ai_with_tools(q, HttpOutcomes[h], LlmOutcomes[l], Clocks[t]),
                q, Clocks[t], next_pc, before)

\* app.py:169-171
TestWeather ==
    /\ pc = "test_weather"
    /\ Invoke(WeatherSmokeQuestion, "test_time", <<"test_weather">>)
    /\ UNCHANGED <<WEATHER_API_KEY, user_input, recity>>

\* app.py:174-181
TestTime ==
    /\ pc = "test_time"
    /\ Invoke(TimeSmokeQuestion, "loop", <<"test_time">>)
    /\ UNCHANGED <<WEATHER_API_KEY, user_input, recity>>

\* app.py:184-187
LoopQuit ==
    /\ pc = "loop"
    /\ count("input", trace) < MaxLines
    /\ \E line \in Lines :
        /\ is_quit(line)
        /\ user_input' = line
    /\ trace' = trace \o <<"input", "goodbye">>
    /\ pc' = "done"
    /\ UNCHANGED <<WEATHER_API_KEY, question, intent, city, recity, now, weather_data, calls, ret>>

\* app.py:184-185, 189-191
LoopAnswer ==
    /\ pc = "loop"
    /\ count("input", trace) < MaxLines
    /\ \E line \in Lines :
        /\ ~is_quit(line)
        /\ user_input' = line
        /\ Invoke(line, "loop", <<"input">>)
    /\ UNCHANGED <<WEATHER_API_KEY, recity>>

\* app.py:184: input() at the end of the stream raises EOFError
LoopEndOfInput ==
    /\ pc = "loop"
    /\ count("input", trace) < MaxLines
    /\ trace' = Append(trace, "eof")
    /\ pc' = "crashed"
    /\ UNCHANGED <<WEATHER_API_KEY, user_input, question, intent, city, recity, now, weather_data, calls, ret>>

Next ==
    \/ Banner
    \/ KeyWarning
    \/ KeyLoaded
    \/ TestWeather
    \/ TestTime
    \/ LoopQuit
    \/ LoopAnswer
    \/ LoopEndOfInput

Spec == Init /\ [][Next]_vars

-----------------------------------------------------------------------------
(* Questions the functions are applied to: up to a bounded number of words  *)
(* of a vocabulary, separated by single spaces                              *)

IntentVocab == <<<<"W", "e", "a", "t", "h", "e", "r">>, <<"t", "e", "m", "p", "e", "r", "a", "t", "u", "r", "e", "?">>, <<"t", "r", "a", "i", "n">>, <<"s", "u", "n", "n", "y">>, <<"C", "l", "o", "u", "d", "y">>,
                 <<"s", "o", "m", "e", "t", "i", "m", "e", "s">>, <<"u", "p", "d", "a", "t", "e">>, <<"T", "O", "D", "A", "Y">>, <<"h", "e", "l", "l", "o">>, <<"i", "n">>, <<"P", "a", "r", "i", "s">>>>
CityVocab == <<<<"w", "e", "a", "t", "h", "e", "r">>, <<"i", "n">>, <<"I", "n", ",">>, <<"f", "o", "r">>, <<"a", "t">>, <<"P", "a", "r", "i", "s", "?">>, <<"L", "A">>, <<"3", "r", "d">>, <<"-">>>>

RECURSIVE Sentences(_, _)
\* the index tuples of at most n words over a vocabulary of v words
Sentences(v, n) ==
    IF n = 0 THEN {<<>>}
    ELSE LET shorter == Sentences(v, n - 1)
         IN shorter \cup {Append(s, w) : s \in {t \in shorter : Len(t) = n - 1}, w \in 1..v}

Spell(vocab, idx) == str_join([i \in 1..Len(idx) |-> vocab[idx[i]]])

IntentQuestions == {Spell(IntentVocab, s) : s \in Sentences(Len(IntentVocab), MaxIntentWords)}
CityQuestions == {Spell(CityVocab, s) : s \in Sentences(Len(CityVocab), MaxCityWords)}

-----------------------------------------------------------------------------
(* The text functions applied to generated questions *)


InitText ==
    /\ pc = "t_input"
    /\ question \in IntentQuestions \cup CityQuestions
    /\ WEATHER_API_KEY = NoneValue
    /\ trace = <<>>
    /\ user_input = <<>>
    /\ intent = Unset
    /\ city = NoneValue
    /\ recity = NoneValue
    /\ now = Epoch
    /\ weather_data = NoRet
    /\ calls = <<>>
    /\ ret = NoRet

Classify ==
    /\ pc = "t_input"
    /\ intent' = detect_intent(question)
    /\ pc' = "t_classified"
    /\ UNCHANGED <<WEATHER_API_KEY, trace, user_input, now, weather_data, question, city, recity, calls, ret>>

Extract ==
    /\ pc = "t_classified"
    /\ city' = extract_city_from_question(question)
    /\ pc' = "t_extracted"
    /\ UNCHANGED <<WEATHER_API_KEY, trace, user_input, now, weather_data, question, intent, recity, calls, ret>>

ReExtract ==
    /\ pc = "t_extracted"
    /\ city.some
    /\ recity' = extract_city_from_question(city.text)
    /\ pc' = "t_reextracted"
    /\ UNCHANGED <<WEATHER_API_KEY, trace, user_input, now, weather_data, question, intent, city, calls, ret>>

NextText == Classify \/ Extract \/ ReExtract

SpecText == InitText /\ [][NextText]_vars

-----------------------------------------------------------------------------
(* Properties.  What the properties read off a state: *)

CallCount(kind) == Cardinality({i \in 1..Len(calls) : calls[i].kind = kind})
HasCall(kind) == \E i \in 1..Len(calls) : calls[i].kind = kind
\* ask_ai_with_tools has been invoked at least once
Invoked == intent # Unset /\ pc \notin {"t_input", "t_classified", "t_extracted", "t_reextracted"}
\* the text harness has applied detect_intent / extract_city_from_question
Classified == pc \in {"t_classified", "t_extracted", "t_reextracted"}
Extracted == pc \in {"t_extracted", "t_reextracted"}

WeatherWords == {<<"w", "e", "a", "t", "h", "e", "r">>, <<"t", "e", "m", "p", "e", "r", "a", "t", "u", "r", "e">>, <<"r", "a", "i", "n">>, <<"s", "u", "n", "n", "y">>, <<"c", "l", "o", "u", "d", "y">>}
TimeWords == {<<"t", "i", "m", "e">>, <<"d", "a", "t", "e">>, <<"t", "o", "d", "a", "y">>}
MentionsAny(wordset, text) == \E w \in wordset : contains(str_lower(text), w)

\* C1: get_weather never raises to its caller: whatever the outcome of the
\* GET, it hands back a weather reading or an error message.
C1_GetWeatherNeverRaises ==
    HasCall("http") => weather_data.kind \in {"dict", "str"}

\* C2: in the weather branch, when a city was extracted and get_weather gave an
\* error message, ask_ai_with_tools returns exactly that message and the model
\* is not called; the model is called only after get_weather gave a reading.
C2_ErrorReturnedVerbatim ==
    Invoked /\ intent = "weather" =>
        /\ (truthy(city) /\ weather_data.kind = "str" =>
                /\ ret = Return(weather_data.text)
                /\ CallCount("llm") = 0)
        /\ \A i \in 1..Len(calls) : calls[i].kind = "llm" =>
                /\ weather_data.kind = "dict"
                /\ \E j \in 1..(i - 1) : calls[j].kind = "http"

C2_Witness ==
    /\ Invoked /\ intent = "weather" /\ truthy(city)
    /\ weather_data.kind = "str" /\ Len(weather_data.text) > 0
    /\ ret = Return(weather_data.text)
    /\ HasCall("http") /\ ~HasCall("llm")

\* C3: a weather question with no extractable city gets the static
\* clarification message, with no HTTP request and no model call.
C3_NoCityNoCalls ==
    Invoked /\ intent = "weather" /\ ~truthy(city) =>
        /\ ret = Return(ClarifyCity)
        /\ CallCount("http") = 0
        /\ CallCount("llm") = 0

C3_Witness ==
    /\ Invoked /\ intent = "weather" /\ ~truthy(city)
    /\ question = <<"w", "h", "a", "t", "'", "s", " ", "t", "h", "e", " ", "w", "e", "a", "t", "h", "e", "r">>
    /\ ret = Return(ClarifyCity) /\ calls = <<>>

\* the value of a decimal digit
DigitValue(c) == CHOOSE n \in 0..9 : DigitChars[n + 1] = c
\* text holds, somewhere, the date of t written YYYY-MM-DD
HoldsDate(text, t) ==
    \E i \in 1..(Len(text) - 9) :
        /\ \A k \in {0, 1, 2, 3, 5, 6, 8, 9} : text[i + k] \in DigitSet
        /\ text[i + 4] = "-" /\ text[i + 7] = "-"
        /\ 1000 * DigitValue(text[i]) + 100 * DigitValue(text[i + 1])
             + 10 * DigitValue(text[i + 2]) + DigitValue(text[i + 3]) = t.year
        /\ 10 * DigitValue(text[i + 5]) + DigitValue(text[i + 6]) = t.month
        /\ 10 * DigitValue(text[i + 8]) + DigitValue(text[i + 9]) = t.day

\* the time branch ran: one model call, no HTTP request, and a prompt that
\* holds the current date
TimeBranchTaken ==
    /\ intent = "time"
    /\ Len(calls) = 1 /\ calls[1].kind = "llm"
    /\ HoldsDate(calls[1].arg, now)

\* C4, as claimed: every question containing "time" takes the time branch,
\* builds a prompt holding the current date and returns a non-empty string
\* (read in the claim's favour: whenever the model replies with one).
C4_AnyTimeQuestion ==
    Invoked /\ contains(question, <<"t", "i", "m", "e">>) =>
        /\ TimeBranchTaken
        /\ (calls[1].ok /\ Len(calls[1].reply) > 0 => ret.kind = "return" /\ Len(ret.text) > 0)

\* C4, amended: a question containing "time" and no weather keyword takes the
\* time branch: no HTTP request, one model call whose prompt holds the current
\* date as YYYY-MM-DD, and the model's text returned unmodified when the call
\* succeeds (its failure leaves the function as an exception).
C4_TimeQuestionWithoutWeatherWord ==
    Invoked /\ contains(question, <<"t", "i", "m", "e">>) /\ ~MentionsAny(WeatherWords, question) =>
        /\ TimeBranchTaken
        /\ (calls[1].ok => ret = Return(calls[1].reply))
        /\ (~calls[1].ok => ret.kind = "raise")

C4_Witness ==
    /\ Invoked /\ contains(question, <<"t", "i", "m", "e">>) /\ ~MentionsAny(WeatherWords, question)
    /\ now.month < 10
    /\ TimeBranchTaken
    /\ ret.kind = "return" /\ Len(ret.text) > 0

\* C5: detect_intent is total and three-way over the lowercased text, by
\* substring: a weather keyword gives weather, also when a time keyword is
\* present; a time keyword alone gives time; neither gives general.
C5_IntentClassification ==
    Classified =>
        LET w == MentionsAny(WeatherWords, question)
            t == MentionsAny(TimeWords, question)
        IN /\ intent \in {"weather", "time", "general"}
           /\ (w /\ ~t => intent = "weather")
           /\ (t /\ ~w => intent = "time")
           /\ (~w /\ ~t => intent = "general")
           /\ (w /\ t => intent = "weather")

C5_Witness ==
    /\ Classified
    /\ MentionsAny(WeatherWords, question) /\ MentionsAny(TimeWords, question)
    /\ question # str_lower(question)
    /\ intent = "weather"

\* the events of the script itself, without those of the invocations
Milestones ==
    SelectSeq(trace, LAMBDA e : e \in {"banner", "key_warning", "key_loaded",
                                        "test_weather", "test_time", "input", "eof"})
IsRead(e) == e \in {"input", "eof"}
HasRead == \E i \in 1..Len(Milestones) : IsRead(Milestones[i])
FirstRead == CHOOSE i \in 1..Len(Milestones) :
                 IsRead(Milestones[i]) /\ \A j \in 1..(i - 1) : ~IsRead(Milestones[j])
BeforeFirstRead == SubSeq(Milestones, 1, FirstRead - 1)
KeyConfigured == WEATHER_API_KEY.some /\ WEATHER_API_KEY.text # <<>>

\* C6, as claimed: with or without the key, the banner, the key check, the
\* weather test and the time test, in that order, precede the first read.
C6_BothTestsBeforeFirstRead ==
    HasRead =>
        /\ Len(BeforeFirstRead) = 4
        /\ BeforeFirstRead[1] = "banner"
        /\ BeforeFirstRead[2] \in {"key_warning", "key_loaded"}
        /\ BeforeFirstRead[3] = "test_weather"
        /\ BeforeFirstRead[4] = "test_time"

\* C6, amended: the banner and the key check come first (a warning when the
\* key is absent or empty, without terminating); with the key configured the
\* weather test and then the time test run, without it only the time test
\* runs; the first read of an input line follows the tests that run.
C6_TestsBeforeFirstRead ==
    /\ HasRead =>
        BeforeFirstRead = IF KeyConfigured
                          THEN <<"banner", "key_loaded", "test_weather", "test_time">>
                          ELSE <<"banner", "key_warning", "test_time">>
    /\ pc = "test_time" /\ KeyConfigured => question = WeatherSmokeQuestion /\ ret.kind = "return"
    /\ pc = "loop" /\ ~HasRead => question = TimeSmokeQuestion /\ ret.kind = "return"

C6_Witness ==
    /\ ~KeyConfigured
    /\ HasRead
    /\ BeforeFirstRead = <<"banner", "key_warning", "test_time">>
    /\ trace[Len(trace)] = "ai"

\* the line equals quit, exit or bye, whatever its case
SaysQuit(line) == str_lower(line) \in {<<"q", "u", "i", "t">>, <<"e", "x", "i", "t">>, <<"b", "y", "e">>}
InputPositions == {i \in 1..Len(trace) : trace[i] = "input"}
LastInput == CHOOSE i \in InputPositions : \A j \in InputPositions : j <= i
\* the events from one read up to the next read, or to the end
After(i) ==
    LET later == {j \in InputPositions : j > i}
        stop == IF later = {} THEN Len(trace) + 1 ELSE CHOOSE j \in later : \A k \in later : j <= k
    IN SubSeq(trace, i + 1, stop - 1)

\* C7: a line that says quit, exit or bye in any case prints the farewell and
\* ends the loop with no invocation for it (no HTTP or model call); every
\* other line is passed to ask_ai_with_tools exactly once and its result is
\* printed before the next line is read.
C7_LoopDispatch ==
    /\ \A i \in InputPositions :
          \/ After(i) = <<"goodbye">> /\ i = LastInput /\ pc = "done"
          \/ /\ Len(After(i)) > 0
             /\ After(i)[1] = "ask"
             /\ Cardinality({k \in 1..Len(After(i)) : After(i)[k] = "ask"}) = 1
             /\ (i # LastInput => After(i)[Len(After(i))] = "ai")
    /\ InputPositions # {} =>
          /\ SaysQuit(user_input) <=> After(LastInput) = <<"goodbye">>
          /\ ~SaysQuit(user_input) => question = user_input

C7_Witness ==
    /\ pc = "done"
    /\ user_input = <<"Q", "U", "I", "T">>
    /\ Cardinality(InputPositions) = 2
    /\ After(LastInput) = <<"goodbye">>

\* the words after the first occurrence of a word, joined and title-cased
FirstAt(w, words) == CHOOSE i \in 1..Len(words) : words[i] = w /\ \A j \in 1..(i - 1) : words[j] # w
Occurs(w, words) == \E i \in 1..Len(words) : words[i] = w
WordsAfter(w, words) == Str(str_title(str_join(SubSeq(words, FirstAt(w, words) + 1, Len(words)))))
\* the word occurs and its first occurrence is not the last word
Usable(w, words) == Occurs(w, words) /\ FirstAt(w, words) < Len(words)

\* no city and an empty city are the same answer; any other two differ
SameCity(a, b) == truthy(a) \/ truthy(b) => a = b

\* C8, as claimed: whenever "in" is among the words the result is the words
\* after its first occurrence, and "for" decides over "at" when "in" is absent
\* (read in the claim's favour: no words after the trigger means no city).
C8_InAlwaysWins ==
    Extracted =>
        LET words == clean_words(question) IN
        /\ (Occurs(<<"i", "n">>, words) => SameCity(city, WordsAfter(<<"i", "n">>, words)))
        /\ (~Occurs(<<"i", "n">>, words) /\ Occurs(<<"f", "o", "r">>, words)
                => SameCity(city, WordsAfter(<<"f", "o", "r">>, words)))

\* C8, amended: the triggers are resolved in list order [in, for, at] among
\* those whose first occurrence is followed by at least one word: the result
\* is the title-cased join of all words after the first occurrence of the
\* first such trigger of the list, wherever the others stand in the sentence.
C8_ListOrderAmongUsable ==
    Extracted =>
        LET words == clean_words(question) IN
        /\ (Usable(<<"i", "n">>, words) => city = WordsAfter(<<"i", "n">>, words))
        /\ (~Usable(<<"i", "n">>, words) /\ Usable(<<"f", "o", "r">>, words) => city = WordsAfter(<<"f", "o", "r">>, words))
        /\ (~Usable(<<"i", "n">>, words) /\ ~Usable(<<"f", "o", "r">>, words) /\ Usable(<<"a", "t">>, words)
                => city = WordsAfter(<<"a", "t">>, words))

C8_Witness ==
    /\ Extracted
    /\ LET words == clean_words(question) IN
        /\ Usable(<<"i", "n">>, words) /\ Usable(<<"f", "o", "r">>, words)
        /\ FirstAt(<<"f", "o", "r">>, words) < FirstAt(<<"i", "n">>, words)
        /\ city = WordsAfter(<<"i", "n">>, words)
        /\ city # WordsAfter(<<"f", "o", "r">>, words)

SingleWord(s) == Len(s) > 0 /\ \A i \in 1..Len(s) : ~isspace(s[i])

\* C9, as claimed: a single-word result, extracted again, gives itself.
C9_IdempotentOnSingleWord ==
    pc = "t_reextracted" /\ SingleWord(city.text) => recity = city

\* C9, amended: a single-word result of more than two characters that begins
\* with an upper-case letter, extracted again, gives itself.
C9_IdempotentOnCapitalizedWord ==
    pc = "t_reextracted" /\ SingleWord(city.text) /\ Len(city.text) > 2
        /\ city.text[1] \in UpperSet
    => recity = city

C9_Witness ==
    /\ pc = "t_reextracted"
    /\ question = <<"w", "e", "a", "t", "h", "e", "r", " ", "i", "n", " ", "P", "a", "r", "i", "s", "?">>
    /\ city = Str(<<"P", "a", "r", "i", "s">>)
    /\ recity = city

\* the latest invocation called the model and the call failed
ModelCallFailed == \E i \in 1..Len(calls) : calls[i].kind = "llm" /\ ~calls[i].ok

\* C10: a failure of the model call is caught nowhere: it leaves
\* ask_ai_with_tools as an exception, no answer is printed for the invocation,
\* nothing more is read and the program ends without the farewell.
C10_ModelFailureEndsProgram ==
    Invoked /\ ModelCallFailed =>
        /\ ret.kind = "raise"
        /\ pc = "crashed"
        /\ trace[Len(trace)] = "llm"
        /\ ~\E i \in 1..Len(trace) : trace[i] = "goodbye"

C10_Witness ==
    /\ Invoked /\ ModelCallFailed
    /\ intent = "weather" /\ weather_data.kind = "dict"
    /\ InputPositions # {}
    /\ pc = "crashed"

====
